---- MODULE Spec2Model ----
(***************************************************************************)
(* A model of src/src/main.rs: one run of the GitHub App installation      *)
(* token tool.  main reads the private key file, create_jwt builds and     *)
(* signs the claims, get_installation_token sends one POST and turns the   *)
(* response into a TokenResponse, main prints two lines and returns.       *)
(*                                                                         *)
(* Text is modelled as a sequence of fragments.  A fragment is a record    *)
(* [key, ty, val]: a JSON member  "key": val  of type ty, or a piece of    *)
(* plain text (ty = "text").  A response body is a sequence of fragments;  *)
(* it is a JSON object exactly when it is non-empty and every fragment is  *)
(* a member.                                                               *)
(*                                                                         *)
(* The clock is counted in ticks, TicksPerSec ticks to the second; a       *)
(* negative reading is a clock before UNIX_EPOCH.  SystemTime holds a      *)
(* signed 64-bit second count, so now + 600 stays below 2^64 and the u64   *)
(* addition of line 59 cannot wrap; the model uses unbounded integers.     *)
(***************************************************************************)
EXTENDS Integers, Sequences, FiniteSets, TLC

VARIABLES pc, args, private_key, jwt, requests, response, body, token,
          stdout, result, raised, exit_status, steps, calls

vars == <<pc, args, private_key, jwt, requests, response, body, token,
          stdout, result, raised, exit_status, steps, calls>>

(* ---------------------------------------------------------------- bounds *)

MaxClock == 2

TicksPerSec == 2

MaxBodyLen == 3

MaxCalls == 2

(* ---------------------------------------------------------------- inputs *)

AppIds == {"", "12345", "Iv1.abc"}

InstallationIds == {"67890", "42"}

KeyPaths == {"app.pem"}

\* RSA private keys the signer accepts.
SigningKeys == {"RSA PRIVATE KEY A", "RSA PRIVATE KEY B"}

\* PEM text of the RSA family that parses as a key but that the signer
\* rejects (a public key, or a modulus too small).
UnsignableKeys == {"RSA KEY UNSIGNABLE"}

\* Key bytes that are no RSA key: nothing, text that is no PEM, and an
\* elliptic-curve private key.
MalformedKeys == {"", "not a pem", "EC PRIVATE KEY"}

KeyMaterials == MalformedKeys \cup UnsignableKeys \cup SigningKeys

ClockReadings == (-1)..MaxClock

Statuses == {200, 201, 401, 404, 500}

None == [none |-> TRUE]

Ok(v) == [ok |-> TRUE, val |-> v]

Err(e) == [ok |-> FALSE, err |-> e]

Error(k, d) == [kind |-> k, detail |-> d]

Lit(s) == [key |-> "", ty |-> "text", val |-> s]

Member(k, t, v) == [key |-> k, ty |-> t, val |-> v]

Fragments ==
  { Lit("<html>"),
    Member("token", "string", "ghs_abc123"),
    Member("token", "number", "42"),
    Member("expires_at", "string", "2024-01-01T01:00:00Z"),
    Member("expires_at", "null", "null"),
    Member("message", "string", "Bad credentials") }

SeqsUpTo(S, n) == UNION { [1..k -> S] : k \in 0..n }

Bodies == SeqsUpTo(Fragments, MaxBodyLen)

(* ------------------------------------------------------------ create_jwt *)

ValidityWindow == 600

\* SystemTime::now().duration_since(UNIX_EPOCH)?.as_secs(): an error for a
\* clock before the epoch, otherwise the whole seconds of the reading.
duration_since_epoch_subsec(clock) ==
  IF clock < 0
    THEN Err(Error("ClockError", <<Lit("second time provided was later than self")>>))
    ELSE Ok(clock)

duration_since_epoch(clock) ==
  IF clock < 0
    THEN Err(Error("ClockError", <<Lit("second time provided was later than self")>>))
    ELSE Ok(clock \div TicksPerSec)

expiration_minute(now) == now + 60

expiration(now) == now + ValidityWindow

JwtClaims(now, app_id) == [iat |-> now, exp |-> expiration(now), iss |-> app_id]

\* EncodingKey::from_rsa_pem: only PEM text of the RSA family is a key.
from_rsa_pem_any_pem(private_key_bytes) ==
  IF private_key_bytes \in SigningKeys \cup UnsignableKeys \cup {"EC PRIVATE KEY"}
    THEN Ok([family |-> "RSA", pem |-> private_key_bytes])
    ELSE Err(Error("KeyFormatError", <<Lit("InvalidKeyFormat")>>))

from_rsa_pem(private_key_bytes) ==
  IF private_key_bytes \in SigningKeys \cup UnsignableKeys
    THEN Ok([family |-> "RSA", pem |-> private_key_bytes])
    ELSE Err(Error("KeyFormatError", <<Lit("InvalidKeyFormat")>>))

\* encode(&header, &claims, &key): header and claims serialised, then signed
\* with the key (RS256 is deterministic: the signature is a function of the
\* key and the signed text).
encode(header, claims, key) ==
  IF key.pem \in SigningKeys
    THEN Ok([header |-> header, payload |-> claims,
             signature |-> [alg |-> header.alg, key |-> key.pem,
                            over |-> <<header, claims>>]])
    ELSE Err(Error("SigningError", <<Lit("InvalidRsaKey")>>))

create_jwt(key_text, app_id, clock) ==
  LET now == duration_since_epoch(clock) IN
  IF ~now.ok THEN Err(now.err)
  ELSE
    LET claims == JwtClaims(now.val, app_id)
        header == [alg |-> "RS256"]
        key    == from_rsa_pem(key_text)
    IN IF ~key.ok THEN Err(key.err)
       ELSE LET signed == encode(header, claims, key.val)
            IN IF ~signed.ok THEN Err(signed.err) ELSE Ok(signed.val)

(* ------------------------------------------------ get_installation_token *)

build_url(installation_id) ==
  <<"https://api.github.com/app/installations/", installation_id, "/access_tokens">>

build_request_token_scheme(signed, installation_id) ==
  [method        |-> "POST",
   url           |-> build_url(installation_id),
   user_agent    |-> "rust-github-app-token-generator",
   accept        |-> "application/vnd.github.v3+json",
   authorization |-> <<"token ", signed>>]

build_request(signed, installation_id) ==
  [method        |-> "POST",
   url           |-> build_url(installation_id),
   user_agent    |-> "rust-github-app-token-generator",
   accept        |-> "application/vnd.github.v3+json",
   authorization |-> <<"Bearer ", signed>>]

is_success(status) == status >= 200 /\ status <= 299

api_error_no_text(error_text) ==
  Error("RemoteRejectionError", <<Lit("API error: ")>>)

api_error(error_text) ==
  Error("RemoteRejectionError", <<Lit("API error: ")>> \o error_text)

ParseError(d) == Err(Error("ResponseParseError", <<Lit(d)>>))

\* The Deserialize that #[derive] generates for TokenResponse, run over the
\* members of the body in order: a known member seen twice, or of a type
\* other than string, is an error; unknown members are skipped; at the end
\* both members must have been seen.
RECURSIVE visit_map(_, _, _, _)
visit_map(b, i, tok, exp) ==
  IF i > Len(b)
    THEN IF tok = None THEN ParseError("missing field token")
         ELSE IF exp = None THEN ParseError("missing field expires_at")
         ELSE Ok([token |-> tok.some, expires_at |-> exp.some])
  ELSE
    LET f == b[i] IN
    IF f.ty = "text" THEN ParseError("expected value")
    ELSE IF f.key = "token"
      THEN IF tok # None THEN ParseError("duplicate field token")
           ELSE IF f.ty # "string" THEN ParseError("invalid type, expected a string")
           ELSE visit_map(b, i + 1, [some |-> f.val], exp)
    ELSE IF f.key = "expires_at"
      THEN IF exp # None THEN ParseError("duplicate field expires_at")
           ELSE IF f.ty # "string" THEN ParseError("invalid type, expected a string")
           ELSE visit_map(b, i + 1, tok, [some |-> f.val])
    ELSE visit_map(b, i + 1, tok, exp)

\* TokenResponse with #[serde(default)] on expires_at.
TokenResponse_default(b) ==
  LET r == IF Len(b) = 0 THEN ParseError("EOF while parsing a value")
           ELSE visit_map(b, 1, None, None)
  IN IF ~r.ok /\ r.err.detail = <<Lit("missing field expires_at")>>
       THEN Ok([token |-> b[CHOOSE i \in 1..Len(b) : b[i].key = "token"].val,
                expires_at |-> ""])
       ELSE r

TokenResponse(b) ==
  IF Len(b) = 0 THEN ParseError("EOF while parsing a value")
  ELSE visit_map(b, 1, None, None)

TransportError(d) == Error("TransportError", <<Lit(d)>>)

(* ------------------------------------------------------------------ main *)

Init ==
  /\ pc = "read_key"
  /\ args \in [key_path : KeyPaths, app_id : AppIds, installation_id : InstallationIds]
  /\ private_key = None
  /\ jwt = None
  /\ requests = <<>>
  /\ response = None
  /\ body = None
  /\ token = None
  /\ stdout = <<>>
  /\ result = None
  /\ raised = None
  /\ exit_status = None
  /\ steps = <<>>
  /\ calls = <<>>

\* The ? of main and of get_installation_token on an Err: the function
\* returns the error, and main returns it in turn.
Fail(e) ==
  /\ result' = Err(e)
  /\ raised' = e
  /\ pc' = "exit"

\* line 42: fs::read_to_string(&args.key_path)?
MainReadKey ==
  /\ pc = "read_key"
  /\ steps' = Append(steps, "read_key")
  /\ \E r \in {Err(Error("InputIOError", <<Lit("No such file or directory")>>))}
               \cup {Ok(k) : k \in KeyMaterials} :
       IF r.ok
         THEN /\ private_key' = [some |-> r.val]
              /\ pc' = "create_jwt"
              /\ UNCHANGED <<result, raised>>
         ELSE /\ Fail(r.err)
              /\ UNCHANGED private_key
  /\ UNCHANGED <<args, jwt, requests, response, body, token, stdout, exit_status, calls>>

\* line 45: create_jwt(&private_key, &args.app_id)?
MainCreateJwt ==
  /\ pc = "create_jwt"
  /\ steps' = Append(steps, "create_jwt")
  /\ \E clock \in ClockReadings :
       LET r == create_jwt(private_key.some, args.app_id, clock) IN
       IF r.ok
         THEN /\ jwt' = [some |-> r.val]
              /\ pc' = "send"
              /\ UNCHANGED <<result, raised>>
         ELSE /\ Fail(r.err)
              /\ UNCHANGED jwt
  /\ UNCHANGED <<args, private_key, requests, response, body, token, stdout, exit_status, calls>>

GitSend_retry ==
  /\ pc = "send"
  /\ steps' = Append(steps, "send")
  /\ requests' = Append(requests, build_request(jwt.some, args.installation_id))
  /\ \E r \in {Err(TransportError("error sending request"))}
               \cup {Ok(s) : s \in Statuses} :
       IF r.ok
         THEN /\ response' = [status |-> r.val]
              /\ pc' = "response"
         ELSE /\ pc' = "send"
              /\ UNCHANGED response
  /\ UNCHANGED <<args, private_key, jwt, body, token, stdout, exit_status, calls,
                 result, raised>>

\* lines 80-93: the client, the url, the request, .send().await?
GitSend ==
  /\ pc = "send"
  /\ steps' = Append(steps, "send")
  /\ requests' = Append(requests, build_request(jwt.some, args.installation_id))
  /\ \E r \in {Err(TransportError("error sending request"))}
               \cup {Ok(s) : s \in Statuses} :
       IF r.ok
         THEN /\ response' = [status |-> r.val]
              /\ pc' = "response"
              /\ UNCHANGED <<result, raised>>
         ELSE /\ Fail(r.err)
              /\ UNCHANGED response
  /\ UNCHANGED <<args, private_key, jwt, body, token, stdout, exit_status, calls>>

\* lines 95-98: a status that is no success; the body text is read and
\* returned as the error.
GitErrorText ==
  /\ pc = "response"
  /\ ~is_success(response.status)
  /\ steps' = Append(steps, "error_text")
  /\ \E r \in {Err(TransportError("error decoding response body"))}
               \cup {Ok(b) : b \in Bodies} :
       /\ body' = r
       /\ IF r.ok THEN Fail(api_error(r.val)) ELSE Fail(r.err)
  /\ UNCHANGED <<args, private_key, jwt, requests, response, token, stdout, exit_status, calls>>

\* lines 100-102 and the ? of line 48: a success status; the body is read
\* and deserialised.
GitJson ==
  /\ pc = "response"
  /\ is_success(response.status)
  /\ steps' = Append(steps, "json")
  /\ \E r \in {Err(TransportError("error decoding response body"))}
               \cup {Ok(b) : b \in Bodies} :
       /\ body' = r
       /\ IF ~r.ok
            THEN Fail(r.err) /\ UNCHANGED token
            ELSE LET t == TokenResponse(r.val) IN
                 IF t.ok
                   THEN /\ token' = [some |-> t.val]
                        /\ pc' = "print_token"
                        /\ UNCHANGED <<result, raised>>
                   ELSE Fail(t.err) /\ UNCHANGED token
  /\ UNCHANGED <<args, private_key, jwt, requests, response, stdout, exit_status, calls>>

\* line 50
MainPrintToken ==
  /\ pc = "print_token"
  /\ steps' = Append(steps, "print_token")
  /\ stdout' = Append(stdout, <<"Installation Token: ", token.some.token>>)
  /\ pc' = "print_expires"
  /\ UNCHANGED <<args, private_key, jwt, requests, response, body, token,
                 result, raised, exit_status, calls>>

MainPrintExpires_token ==
  /\ pc = "print_expires"
  /\ steps' = Append(steps, "print_expires")
  /\ stdout' = Append(stdout, <<"Expires at: ", token.some.token>>)
  /\ result' = Ok("()")
  /\ pc' = "exit"
  /\ UNCHANGED <<args, private_key, jwt, requests, response, body, token,
                 raised, exit_status, calls>>

\* lines 51-53
MainPrintExpires ==
  /\ pc = "print_expires"
  /\ steps' = Append(steps, "print_expires")
  /\ stdout' = Append(stdout, <<"Expires at: ", token.some.expires_at>>)
  /\ result' = Ok("()")
  /\ pc' = "exit"
  /\ UNCHANGED <<args, private_key, jwt, requests, response, body, token,
                 raised, exit_status, calls>>

MainExit_zero ==
  /\ pc = "exit"
  /\ steps' = Append(steps, "exit")
  /\ exit_status' = [code |-> 0]
  /\ pc' = "done"
  /\ UNCHANGED <<args, private_key, jwt, requests, response, body, token,
                 stdout, result, raised, calls>>

\* The return of main: Ok(()) ends the process with status 0, an Err with
\* status 1.
MainExit ==
  /\ pc = "exit"
  /\ steps' = Append(steps, "exit")
  /\ exit_status' = [code |-> IF result.ok THEN 0 ELSE 1]
  /\ pc' = "done"
  /\ UNCHANGED <<args, private_key, jwt, requests, response, body, token,
                 stdout, result, raised, calls>>

Next ==
  \/ MainReadKey
  \/ MainCreateJwt
  \/ GitSend
  \/ GitErrorText
  \/ GitJson
  \/ MainPrintToken
  \/ MainPrintExpires
  \/ MainExit

Spec == Init /\ [][Next]_vars

(* ------------------------------------------------- create_jwt, repeated *)

\* create_jwt called up to MaxCalls times on inputs of the caller's choice;
\* each call and its result is recorded.
InitBuild ==
  /\ pc = "build"
  /\ args = [key_path |-> "app.pem", app_id |-> "", installation_id |-> ""]
  /\ private_key = None
  /\ jwt = None
  /\ requests = <<>>
  /\ response = None
  /\ body = None
  /\ token = None
  /\ stdout = <<>>
  /\ result = None
  /\ raised = None
  /\ exit_status = None
  /\ steps = <<>>
  /\ calls = <<>>

BuildCall ==
  /\ pc = "build"
  /\ Len(calls) < MaxCalls
  /\ \E k \in KeyMaterials, a \in AppIds, c \in ClockReadings :
       calls' = Append(calls, [private_key |-> k, app_id |-> a, clock |-> c,
                               ret |-> create_jwt(k, a, c)])
  /\ UNCHANGED <<pc, args, private_key, jwt, requests, response, body, token,
                 stdout, result, raised, exit_status, steps>>

NextBuild == BuildCall

SpecBuild == InitBuild /\ [][NextBuild]_vars

(* ============================================================ properties *)

Contains(s, t) ==
  \E i \in 1..(Len(s) - Len(t) + 1) : SubSeq(s, i, i + Len(t) - 1) = t

Occurrences(b, k) == { i \in 1..Len(b) : b[i].key = k }

IsJsonObject(b) == Len(b) > 0 /\ \A i \in 1..Len(b) : b[i].ty # "text"

\* The member k is absent from the body, or occurs with a value that is no
\* string.
AbsentOrNotString(b, k) ==
  \/ Occurrences(b, k) = {}
  \/ \E i \in Occurrences(b, k) : b[i].ty # "string"

\* The body is a JSON object in which k occurs once, as a string.
StringField(b, k) ==
  /\ IsJsonObject(b)
  /\ Cardinality(Occurrences(b, k)) = 1
  /\ \A i \in Occurrences(b, k) : b[i].ty = "string"

FieldValue(b, k) == b[CHOOSE i \in 1..Len(b) : b[i].key = k].val

Second(clock) == CHOOSE n \in 0..(MaxClock + 1) :
                   n * TicksPerSec <= clock /\ clock < (n + 1) * TicksPerSec

StepsBeforeExit ==
  IF Len(steps) > 0 /\ steps[Len(steps)] = "exit"
    THEN SubSeq(steps, 1, Len(steps) - 1) ELSE steps

IsPrefix(s, t) == Len(s) <= Len(t) /\ s = SubSeq(t, 1, Len(s))

SuccessOrder ==
  <<"read_key", "create_jwt", "send", "json", "print_token", "print_expires">>

RejectionOrder == <<"read_key", "create_jwt", "send", "error_text">>

\* C1: every call of create_jwt that succeeds returns an assertion whose
\* claims have exp = iat + 600 and iss equal to the issuer passed in, with
\* iat the whole second of the clock reading taken in that call.
C1_ClaimsOfSuccessfulBuild ==
  \A n \in 1..Len(calls) :
    LET c == calls[n] IN
    c.ret.ok =>
      /\ c.ret.val.payload.exp = c.ret.val.payload.iat + 600
      /\ c.ret.val.payload.iss = c.app_id
      /\ c.clock >= 0
      /\ c.ret.val.payload.iat = Second(c.clock)

C1_Witness ==
  \E n \in 1..Len(calls) :
    /\ calls[n].ret.ok
    /\ calls[n].app_id # ""
    /\ calls[n].private_key \in SigningKeys
    /\ calls[n].clock > 0
    /\ calls[n].ret.val.payload.iat * TicksPerSec < calls[n].clock

\* C2 as stated: once the endpoint has answered with a status outside 2xx and
\* get_installation_token has returned, the run has failed with
\* RemoteRejectionError and no other kind, and no credential was returned.
C2_Original ==
  (response # None /\ ~is_success(response.status) /\ result # None) =>
    /\ ~result.ok
    /\ result.err.kind = "RemoteRejectionError"
    /\ token = None

\* C2 amended: after a status outside 2xx, get_installation_token returns no
\* credential; when the body text was read, the error is RemoteRejectionError
\* and its message contains that text unchanged; when reading the body
\* failed, the error is the TransportError of that read.
C2_RejectionCarriesBody ==
  (response # None /\ ~is_success(response.status) /\ result # None) =>
    /\ ~result.ok
    /\ token = None
    /\ stdout = <<>>
    /\ body # None
    /\ IF body.ok
         THEN /\ result.err.kind = "RemoteRejectionError"
              /\ Contains(result.err.detail, body.val)
         ELSE /\ result.err.kind = "TransportError"
              /\ result.err = body.err

C2_Witness ==
  /\ pc = "done"
  /\ response # None /\ response.status = 401
  /\ body # None /\ body.ok
  /\ body.val = <<Member("message", "string", "Bad credentials")>>
  /\ result.err.kind = "RemoteRejectionError"

C4_Original ==
  \A n \in 1..Len(calls) :
    calls[n].private_key \in MalformedKeys =>
      (~calls[n].ret.ok /\ calls[n].ret.err.kind = "KeyFormatError")

\* C4 amended: every call of create_jwt with malformed key bytes fails and
\* returns no assertion, whatever the issuer; with a clock at or after the
\* epoch the error is KeyFormatError, with a clock before the epoch it is
\* ClockError, the clock being read before the key is parsed.
C4_MalformedKeyFails ==
  \A n \in 1..Len(calls) :
    calls[n].private_key \in MalformedKeys =>
      /\ ~calls[n].ret.ok
      /\ calls[n].clock >= 0 => calls[n].ret.err.kind = "KeyFormatError"
      /\ calls[n].clock < 0 => calls[n].ret.err.kind = "ClockError"

C4_Witness ==
  \E n \in 1..Len(calls) :
    /\ calls[n].private_key = "EC PRIVATE KEY"
    /\ calls[n].clock >= 0
    /\ ~calls[n].ret.ok
    /\ calls[n].ret.err.kind = "KeyFormatError"

C6_ErrorsAreFatal ==
  /\ raised # None =>
       /\ result = Err(raised)
       /\ pc \in {"exit", "done"}
       /\ stdout = <<>>
       /\ token = None
       /\ raised.kind = "InputIOError" => StepsBeforeExit = <<"read_key">>
       /\ raised.kind \in {"ClockError", "KeyFormatError", "SigningError"}
            => (StepsBeforeExit = <<"read_key", "create_jwt">> /\ requests = <<>>)
       /\ raised.kind = "TransportError"
            => StepsBeforeExit \in { <<"read_key", "create_jwt", "send">>,
                                     <<"read_key", "create_jwt", "send", "error_text">>,
                                     <<"read_key", "create_jwt", "send", "json">> }
       /\ raised.kind = "RemoteRejectionError" => StepsBeforeExit = RejectionOrder
       /\ raised.kind = "ResponseParseError"
            => StepsBeforeExit = <<"read_key", "create_jwt", "send", "json">>
       /\ raised.kind \in {"InputIOError", "ClockError", "KeyFormatError", "SigningError",
                           "TransportError", "RemoteRejectionError", "ResponseParseError"}
  /\ (result # None /\ ~result.ok) => raised # None
  /\ (pc = "done" /\ ~result.ok) => (exit_status # None /\ exit_status.code # 0)
  /\ (exit_status # None /\ exit_status.code # 0) => stdout = <<>>

C6_Witness ==
  /\ pc = "done"
  /\ raised # None
  /\ raised.kind = "SigningError"
  /\ exit_status.code = 1

\* C7: a run in which the key file was read, create_jwt succeeded and the
\* endpoint returned a 2xx response whose body is a JSON object with the
\* members token and expires_at once each, as strings, ends with exit status
\* 0 having printed two lines, the first with the token and the second with
\* the expiry, both as they stand in the body.
C7_TwoLinesOnSuccess ==
  /\ Len(stdout) <= 2
  /\ (/\ pc = "done"
      /\ response # None /\ is_success(response.status)
      /\ body # None /\ body.ok
      /\ StringField(body.val, "token")
      /\ StringField(body.val, "expires_at"))
     => /\ stdout = << <<"Installation Token: ", FieldValue(body.val, "token")>>,
                       <<"Expires at: ", FieldValue(body.val, "expires_at")>> >>
        /\ result.ok
        /\ exit_status.code = 0
  /\ (pc = "done" /\ result.ok) => (Len(stdout) = 2 /\ exit_status.code = 0)

C7_Witness ==
  /\ pc = "done"
  /\ result.ok
  /\ body.val = << Member("message", "string", "Bad credentials"),
                   Member("expires_at", "string", "2024-01-01T01:00:00Z"),
                   Member("token", "string", "ghs_abc123") >>
  /\ Len(stdout) = 2

\* C8: the steps of a run are taken in the order read key, create_jwt, send,
\* response, print, print, exit; a request is sent only once create_jwt has
\* returned an assertion, carries "Bearer " followed by that assertion, and
\* goes to the fixed path with the installation id of the arguments in it;
\* no request is sent in a run where the key read or create_jwt fails.
C8_OrderAndRequest ==
  /\ \/ IsPrefix(StepsBeforeExit, SuccessOrder)
     \/ IsPrefix(StepsBeforeExit, RejectionOrder)
  /\ \A i \in 1..Len(steps) : steps[i] = "exit" => (i = Len(steps) /\ pc = "done")
  /\ \A i \in 1..Len(requests) :
       /\ jwt # None
       /\ private_key # None
       /\ requests[i].method = "POST"
       /\ requests[i].authorization = <<"Bearer ", jwt.some>>
       /\ requests[i].url = <<"https://api.github.com/app/installations/",
                              args.installation_id, "/access_tokens">>
       /\ jwt.some.payload.iss = args.app_id
  /\ (private_key = None \/ jwt = None) => requests = <<>>
  /\ stdout # <<>> => (Len(requests) = 1 /\ token # None)

C8_Witness ==
  /\ pc = "done"
  /\ Len(requests) = 1
  /\ args.installation_id = "67890"
  /\ steps = SuccessOrder \o <<"exit">>

\* C9 as stated: every assertion create_jwt has signed has a non-empty iss
\* and an exp above its iat, for any application id and any clock value.
C9_Original ==
  jwt # None => (jwt.some.payload.iss # "" /\ jwt.some.payload.exp > jwt.some.payload.iat)

\* C10: two calls of create_jwt with the same issuer that read the same
\* clock second and both succeed produce the same claims, whatever the two
\* keys and whatever the order of the calls.
C10_ClaimsDeterministic ==
  \A m, n \in 1..Len(calls) :
    (/\ calls[m].ret.ok /\ calls[n].ret.ok
     /\ calls[m].app_id = calls[n].app_id
     /\ calls[m].clock >= 0 /\ calls[n].clock >= 0
     /\ Second(calls[m].clock) = Second(calls[n].clock))
    => calls[m].ret.val.payload = calls[n].ret.val.payload

C10_Witness ==
  /\ Len(calls) = 2
  /\ calls[1].ret.ok /\ calls[2].ret.ok
  /\ calls[1].app_id = calls[2].app_id
  /\ calls[1].private_key # calls[2].private_key
  /\ calls[1].clock # calls[2].clock
  /\ Second(calls[1].clock) = Second(calls[2].clock)
  /\ calls[1].ret.val # calls[2].ret.val

====
